---- MODULE Spec2Model ----
(***************************************************************************)
(* The pthreads pipeline of NTHU-OS-Pthreads:                              *)
(*   Reader -> input_queue -> Producer x k -> worker_queue                 *)
(*          -> Consumer x dynamic (ConsumerController) -> output_queue     *)
(*          -> Writer                                                      *)
(* TSQueue is the ring buffer of ts_queue.hpp, guarded by one mutex and    *)
(* two condition variables.  Every critical section of a TSQueue is one    *)
(* atomic action; pthread_cond_wait is a change of the caller's position   *)
(* to a waiting one, and pthread_cond_signal moves one waiter back to the  *)
(* head of its while loop.  get_size() is an unlocked read of size and is  *)
(* a step of its own wherever the code branches on it.                     *)
(***************************************************************************)
EXTENDS Integers, Sequences, FiniteSets, TLC

\* ------------------------------------------------------------------ bounds
\* The model runs main() in two configurations.  In the first, n (argv[1], the
\* number of items) is any number up to NItems, NumProducers of the identical
\* Producers p1..p4 are started, and the queue capacities of main.cpp
\* (200, 200, 4000) are scaled down to the three sizes below: items flow
\* through a worker queue smaller than n while the pool scales.
NItems == 3
NumProducers == 2
READER_QUEUE_SIZE == 1
WORKER_QUEUE_SIZE == 2
WRITER_QUEUE_SIZE == 1
\* In the second, one Producer fills a worker queue of WIDE_QUEUE_SIZE slots
\* with as many items: a capacity at which an occupancy of exactly 80% exists.
WIDE_QUEUE_SIZE == 5
\* Consumer objects the controller may create in one run of the model.
MaxConsumers == 2

\* --------------------------------------------------------------- constants
CONSUMER_CONTROLLER_LOW_THRESHOLD_PERCENTAGE == 20
CONSUMER_CONTROLLER_HIGH_THRESHOLD_PERCENTAGE == 80

\* ------------------------------------------------------------------ threads
Reader == <<"R", 0>>
Writer == <<"W", 0>>
Controller == <<"K", 0>>
Producers == {<<"P", i>> : i \in 1..NumProducers}
Consumers == {<<"C", i>> : i \in 1..MaxConsumers}
Threads == {Reader, Writer, Controller} \cup Producers \cup Consumers

Queues == {"input", "worker", "output"}

\* ------------------------------------------------------------------- items
\* An Item is (key, val, opcode).  val is a term: <<v>> is the value read
\* from the input, and a transform puts its tag and opcode in front.
NoItem == [key |-> 0, val |-> <<>>, opcode |-> 0]

\* The i-th record of the input file.
InputItem(i) == [key |-> i, val |-> <<i>>, opcode |-> i % 2]

\* Transformer::producer_transform and ::consumer_transform: pure functions
\* of (opcode, val), kept uninterpreted.
producer_transform(opcode, val) == <<1, opcode>> \o val
consumer_transform(opcode, val) == <<2, opcode>> \o val

VARIABLES
    n,               \* main(): atoi(argv[1]), the number of items
    num_producers,   \* main(): the Producers it starts
    main_i,          \* main(): index in StartOrder of the next start(); then join, exit
    buffer_size,     \* TSQueue::buffer_size, per queue
    pc,              \* position of every thread
    buffer,          \* TSQueue::buffer, per queue: slot -> Item
    size,            \* TSQueue::size
    head,            \* TSQueue::head
    tail,            \* TSQueue::tail
    mutex,           \* TSQueue::mutex: its owner outside atomic sections, or Free
    enq_hist,        \* history: items in the order their enqueue was serialized
    deq_hist,        \* history: items in the order dequeue returned them
    reader_i,        \* Reader: items fed so far
    written,         \* Writer: the items written to the output file, in order
    held,            \* the Item* a Producer / Consumer / Writer took and still owns
    is_cancel,       \* Consumer::is_cancel
    cancel_pending,  \* a pthread_cancel request delivered to the thread, not acted on
    n_created,       \* Consumer objects created so far
    tick_sizes,      \* history: the sizes the worker queue has had since the
                     \* first get_size() of the controller's current pass
    consumers        \* ConsumerController::consumers

vars == <<n, num_producers, main_i, pc, buffer_size, buffer, size, head, tail,
          mutex, enq_hist, deq_hist, reader_i, written, held, is_cancel,
          cancel_pending, n_created, consumers, tick_sizes>>

queue_vars == <<buffer, size, head, tail, enq_hist, deq_hist>>

\* What no action changes once main() has built the pipeline.
config_vars == <<n, num_producers, buffer_size>>

Free == <<"-", 0>>

\* The order of the start() calls of main().
StartOrder ==
    <<Reader, Writer, Controller>> \o [i \in 1..num_producers |-> <<"P", i>>]

\* ------------------------------------------------------------------ TSQueue
\* Mutant of TSQueueInit: tail starts at 0.
TSQueueInit_TailZero(sizes) ==
    /\ buffer_size = sizes
    /\ buffer = [q \in Queues |-> [s \in 0..(sizes[q] - 1) |-> NoItem]]
    /\ size = [q \in Queues |-> 0]
    /\ head = [q \in Queues |-> 0]
    /\ tail = [q \in Queues |-> 0]
    /\ mutex = [q \in Queues |-> <<"-", 0>>]
    /\ enq_hist = [q \in Queues |-> <<>>]
    /\ deq_hist = [q \in Queues |-> <<>>]

\* TSQueue::TSQueue(buffer_size): size = head = 0, tail = -1, an empty buffer.
TSQueueInit(sizes) ==
    /\ buffer_size = sizes
    /\ buffer = [q \in Queues |-> [s \in 0..(sizes[q] - 1) |-> NoItem]]
    /\ size = [q \in Queues |-> 0]
    /\ head = [q \in Queues |-> 0]
    /\ tail = [q \in Queues |-> -1]
    /\ mutex = [q \in Queues |-> Free]
    /\ enq_hist = [q \in Queues |-> <<>>]
    /\ deq_hist = [q \in Queues |-> <<>>]

\* TSQueue::get_size: the unlocked read of size.
get_size(q) == size[q]

\* TSQueue::get_max_buffersize
get_max_buffersize(q) == buffer_size[q]

\* The live items of q, oldest first: the size slots from head on.
Contents(q) ==
    [i \in 1..size[q] |-> buffer[q][(head[q] + i - 1) % buffer_size[q]]]

\* The threads blocked in pthread_cond_wait on q's cond_enqueue.
EnqWaiters(q) ==
    {t \in Threads : /\ pc[t] = "enq_wait"
                     /\ \/ q = "input" /\ t = Reader
                        \/ q = "worker" /\ t \in Producers
                        \/ q = "output" /\ t \in Consumers}

\* The threads blocked in pthread_cond_wait on q's cond_dequeue.
DeqWaiters(q) ==
    {t \in Threads : /\ pc[t] = "deq_wait"
                     /\ \/ q = "input" /\ t \in Producers
                        \/ q = "worker" /\ t \in Consumers
                        \/ q = "output" /\ t = Writer}

\* Mutant of SignalChoices: the signal reaches nobody.
SignalChoices_Nobody(waiters) == {Free}

\* pthread_cond_signal: one of the waiters, or nobody when none waits.
SignalChoices(waiters) == IF waiters = {} THEN {Free} ELSE waiters

\* The positions after thread t moved to `next` and waiter w (if any) was
\* woken: w is back at the head of its while loop, about to re-take the mutex.
Moved(t, next, w, back) ==
    [x \in Threads |-> IF x = t THEN next
                       ELSE IF x = w THEN back
                       ELSE pc[x]]

\* Mutant of CancelDisabled: the window is never entered.
CancelDisabled_Never(t) == FALSE

\* pthread_setcancelstate(PTHREAD_CANCEL_DISABLE) .. (PTHREAD_CANCEL_ENABLE):
\* the window of Consumer::process in which a cancel request is held back.
CancelDisabled(t) ==
    t \in Consumers => pc[t] \in {"if_size", "deq", "deq_wait", "enq", "enq_wait"}

\* pthread_cond_wait is a cancellation point: a thread with a pending request
\* and cancellation enabled is cancelled there.
CancelActs(t) == cancel_pending[t] /\ ~CancelDisabled(t)

\* Mutant of Full: the test is off by one.
Full_OffByOne(q) == size[q] > buffer_size[q]

\* while (size == buffer_size) of enqueue.
Full(q) == size[q] = buffer_size[q]

\* Mutant of Empty: dequeue never waits.
Empty_Never(q) == FALSE

\* while (size == 0) of dequeue.
Empty(q) == size[q] = 0

\* Mutant of Front: the newest item is returned.
Front_Newest(q) == buffer[q][IF tail[q] < 0 THEN 0 ELSE tail[q]]

\* T val = buffer[head];
Front(q) == buffer[q][head[q]]

\* pthread_cond_wait entered by t on queue q, going to position `waiting`.
\* A cancelled thread re-takes the mutex and ends without releasing it
\* (no cleanup handler is installed).
cond_wait(t, q, waiting) ==
    IF CancelActs(t)
    THEN /\ pc' = [pc EXCEPT ![t] = "cancelled"]
         /\ mutex' = [mutex EXCEPT ![q] = t]
    ELSE /\ pc' = [pc EXCEPT ![t] = waiting]
         /\ UNCHANGED mutex

\* The history of sizes once q has come to hold sz items.
Seen(q, sz) ==
    IF q = "worker" /\ pc[Controller] = "elif_low"
    THEN tick_sizes \cup {sz}
    ELSE tick_sizes

\* TSQueue::enqueue called by t, who goes on to `next` when it returns.
enqueue(t, q, item, next) ==
    /\ mutex[q] = Free
    /\ IF Full(q)
       THEN /\ cond_wait(t, q, "enq_wait")
            /\ UNCHANGED <<queue_vars, tick_sizes>>
       ELSE /\ tail' = [tail EXCEPT ![q] = (tail[q] + 1) % buffer_size[q]]
            /\ buffer' = [buffer EXCEPT ![q][tail'[q]] = item]
            /\ size' = [size EXCEPT ![q] = size[q] + 1]
            /\ tick_sizes' = Seen(q, size[q] + 1)
            /\ enq_hist' = [enq_hist EXCEPT ![q] = Append(enq_hist[q], item)]
            /\ \E w \in SignalChoices(DeqWaiters(q)) :
                   pc' = Moved(t, next, w, "deq")
            /\ UNCHANGED <<head, deq_hist, mutex>>

\* TSQueue::dequeue called by t: the value returned is held[t].
dequeue(t, q, next) ==
    /\ mutex[q] = Free
    /\ IF Empty(q)
       THEN /\ cond_wait(t, q, "deq_wait")
            /\ UNCHANGED <<queue_vars, held, tick_sizes>>
       ELSE /\ held' = [held EXCEPT ![t] = Front(q)]
            /\ head' = [head EXCEPT ![q] = (head[q] + 1) % buffer_size[q]]
            /\ size' = [size EXCEPT ![q] = size[q] - 1]
            /\ tick_sizes' = Seen(q, size[q] - 1)
            /\ deq_hist' = [deq_hist EXCEPT ![q] = Append(deq_hist[q], Front(q))]
            /\ \E w \in SignalChoices(EnqWaiters(q)) :
                   pc' = Moved(t, next, w, "enq")
            /\ UNCHANGED <<buffer, tail, enq_hist, mutex>>

\* The process runs until main() returns.
Running == main_i <= Len(StartOrder) + 1

\* pthread_cond_wait may return without a signal (POSIX); the caller is back
\* at the head of its while loop.
SpuriousWakeup(t) ==
    /\ Running
    /\ pc[t] \in {"enq_wait", "deq_wait"}
    /\ pc' = [pc EXCEPT ![t] = IF pc[t] = "enq_wait" THEN "enq" ELSE "deq"]
    /\ UNCHANGED <<config_vars, main_i, queue_vars, tick_sizes, mutex, reader_i, written, held, is_cancel,
                   cancel_pending, n_created, consumers>>

\* ------------------------------------------------------------- Reader, Writer
\* Reader: for each of the n records, enqueue a new Item into input_queue.
ReaderProcess ==
    /\ Running
    /\ pc[Reader] = "enq"
    /\ enqueue(Reader, "input", InputItem(reader_i + 1),
               IF reader_i + 1 = n THEN "done" ELSE "enq")
    /\ reader_i' = IF Full("input") THEN reader_i ELSE reader_i + 1
    /\ UNCHANGED <<config_vars, main_i, written, held, is_cancel, cancel_pending, n_created,
                   consumers>>

\* Writer: n times, dequeue an Item from output_queue and write it.
WriterProcess ==
    /\ Running
    /\ pc[Writer] = "deq"
    /\ dequeue(Writer, "output",
               IF Len(written) + 1 = n THEN "done" ELSE "deq")
    /\ written' = IF Empty("output") THEN written
                  ELSE Append(written, Front("output"))
    /\ UNCHANGED <<config_vars, main_i, reader_i, is_cancel, cancel_pending, n_created,
                   consumers>>

\* ------------------------------------------------------------------ Producer
\* if (input_queue->get_size() > 0)
ProducerCheck(p) ==
    /\ Running
    /\ pc[p] = "check"
    /\ pc' = [pc EXCEPT ![p] = IF get_size("input") > 0 THEN "deq" ELSE "check"]
    /\ UNCHANGED <<config_vars, main_i, queue_vars, tick_sizes, mutex, reader_i, written, held, is_cancel,
                   cancel_pending, n_created, consumers>>

\* Item* transItem = input_queue->dequeue();
ProducerDequeue(p) ==
    /\ Running
    /\ pc[p] = "deq"
    /\ dequeue(p, "input", "enq")
    /\ UNCHANGED <<config_vars, main_i, reader_i, written, is_cancel, cancel_pending, n_created,
                   consumers>>

\* new Item(transItem->key, producer_transform(opcode, val), transItem->opcode)
ProducerItem(it) ==
    [key |-> it.key, val |-> producer_transform(it.opcode, it.val),
     opcode |-> it.opcode]

\* worker_queue->enqueue(temp); delete transItem;
ProducerEnqueue(p) ==
    /\ Running
    /\ pc[p] = "enq"
    /\ enqueue(p, "worker", ProducerItem(held[p]), "check")
    /\ held' = IF Full("worker") THEN held ELSE [held EXCEPT ![p] = NoItem]
    /\ UNCHANGED <<config_vars, main_i, reader_i, written, is_cancel, cancel_pending, n_created,
                   consumers>>

\* ------------------------------------------------------------------ Consumer
\* while (!consumer->is_cancel) { pthread_setcancelstate(DISABLE) ...
\* and, once the flag is seen: delete consumer; return nullptr;
ConsumerWhile(c) ==
    /\ Running
    /\ pc[c] = "while"
    /\ pc' = [pc EXCEPT ![c] = IF is_cancel[c] THEN "exited" ELSE "if_size"]
    /\ UNCHANGED <<config_vars, main_i, queue_vars, tick_sizes, mutex, reader_i, written, held, is_cancel,
                   cancel_pending, n_created, consumers>>

\* if (worker_queue->get_size() > 0) ... else pthread_setcancelstate(ENABLE)
ConsumerIfSize(c) ==
    /\ Running
    /\ pc[c] = "if_size"
    /\ pc' = [pc EXCEPT ![c] = IF get_size("worker") > 0 THEN "deq" ELSE "while"]
    /\ UNCHANGED <<config_vars, main_i, queue_vars, tick_sizes, mutex, reader_i, written, held, is_cancel,
                   cancel_pending, n_created, consumers>>

\* Item* TransItem = worker_queue->dequeue();
ConsumerDequeue(c) ==
    /\ Running
    /\ pc[c] = "deq"
    /\ dequeue(c, "worker", "enq")
    /\ UNCHANGED <<config_vars, main_i, reader_i, written, is_cancel, cancel_pending, n_created,
                   consumers>>

\* Mutant of ConsumerItem: the Consumer applies the Producer's transform.
ConsumerItem_WrongStage(it) ==
    [key |-> it.key, val |-> producer_transform(it.opcode, it.val),
     opcode |-> it.opcode]

\* new Item(TransItem->key, consumer_transform(opcode, val), TransItem->opcode)
ConsumerItem(it) ==
    [key |-> it.key, val |-> consumer_transform(it.opcode, it.val),
     opcode |-> it.opcode]

\* output_queue->enqueue(temp); delete TransItem; pthread_setcancelstate(ENABLE)
ConsumerEnqueue(c) ==
    /\ Running
    /\ pc[c] = "enq"
    /\ enqueue(c, "output", ConsumerItem(held[c]), "while")
    /\ held' = IF Full("output") THEN held ELSE [held EXCEPT ![c] = NoItem]
    /\ UNCHANGED <<config_vars, main_i, reader_i, written, is_cancel, cancel_pending, n_created,
                   consumers>>

\* ------------------------------------------------------- ConsumerController
Last(seq) == seq[Len(seq)]

\* Mutant of AboveHigh: the comparison admits equality.
AboveHigh_OrEqual(sz) ==
    sz * 100 >= CONSUMER_CONTROLLER_HIGH_THRESHOLD_PERCENTAGE * get_max_buffersize("worker")

\* (double) get_size() / get_max_buffersize() > (double) high_threshold / 100.
\* Both quotients are correctly rounded doubles of small integer ratios, so
\* they compare as the exact ratios do.
AboveHigh(sz) ==
    sz * 100 > CONSUMER_CONTROLLER_HIGH_THRESHOLD_PERCENTAGE * get_max_buffersize("worker")

\* Mutant of BelowLow: the scale-down test is the negated scale-up test.
BelowLow_NotAboveHigh(sz) ==
    sz * 100 <= CONSUMER_CONTROLLER_HIGH_THRESHOLD_PERCENTAGE * get_max_buffersize("worker")

\* Mutant of BelowLow: the comparison admits equality.
BelowLow_OrEqual(sz) ==
    sz * 100 <= CONSUMER_CONTROLLER_LOW_THRESHOLD_PERCENTAGE * get_max_buffersize("worker")

\* (double) get_size() / get_max_buffersize() < (double) low_threshold / 100
BelowLow(sz) ==
    sz * 100 < CONSUMER_CONTROLLER_LOW_THRESHOLD_PERCENTAGE * get_max_buffersize("worker")

\* Mutant of AfterScaleUp: the scale-down test is an if, not an else if.
AfterScaleUp_NoElse == "elif_low"

\* The else of "else if": after a scale-up the pass of the loop is over.
AfterScaleUp == "usleep"

\* new Consumer(...); temp->start(); consumers.push_back(temp);
\* The new thread starts at the head of Consumer::process.
ScaleUp ==
    LET c == <<"C", n_created + 1>> IN
    /\ n_created < MaxConsumers
    /\ n_created' = n_created + 1
    /\ is_cancel' = [is_cancel EXCEPT ![c] = FALSE]
    /\ consumers' = Append(consumers, c)
    /\ pc' = [pc EXCEPT ![c] = "while", ![Controller] = AfterScaleUp]
    /\ UNCHANGED cancel_pending

\* temp->start() when pthread_create fails: Consumer::start() does not look
\* at its result, so the Consumer is pushed to consumers with no thread
\* running it and an indeterminate handle t.
ScaleUpNoThread ==
    LET c == <<"C", n_created + 1>> IN
    /\ n_created < MaxConsumers
    /\ n_created' = n_created + 1
    /\ is_cancel' = [is_cancel EXCEPT ![c] = FALSE]
    /\ consumers' = Append(consumers, c)
    /\ pc' = [pc EXCEPT ![c] = "nothread", ![Controller] = AfterScaleUp]
    /\ UNCHANGED cancel_pending

\* One pass of the for (;;) loop, up to its first test:
\* usleep(check_period / 1000); if (size / max > high / 100) { scale up } else ...
ControllerIfHigh ==
    /\ Running
    /\ pc[Controller] = "usleep"
    /\ IF AboveHigh(get_size("worker"))
       THEN ScaleUp /\ UNCHANGED tick_sizes
       ELSE /\ pc' = [pc EXCEPT ![Controller] = "elif_low"]
            /\ tick_sizes' = {get_size("worker")}
            /\ UNCHANGED <<is_cancel, cancel_pending, n_created, consumers>>
    /\ UNCHANGED <<config_vars, main_i, queue_vars, mutex, reader_i, written, held>>

\* The scale-up branch of a pass in which pthread_create fails (EAGAIN).
ControllerCreateFails ==
    /\ Running
    /\ pc[Controller] = "usleep"
    /\ AboveHigh(get_size("worker"))
    /\ ScaleUpNoThread
    /\ UNCHANGED <<config_vars, main_i, queue_vars, tick_sizes, mutex, reader_i, written, held>>

\* Mutant of MayScaleDown: the last Consumer may be retired too.
MayScaleDown_AtOne(pool_size) == pool_size >= 1

\* consumers.size() > 1 of the scale-down test.
MayScaleDown(pool_size) == pool_size > 1

\* Mutant of ScaleDownTarget: the oldest Consumer is cancelled.
ScaleDownTarget_Oldest == consumers[1]

\* The Consumer a scale-down takes: consumers[consumers.size() - 1].
ScaleDownTarget == Last(consumers)

\* else if (size / max < low / 100 && consumers.size() > 1)
\*     { temp = consumers[size - 1]; temp->cancel() ...
\* up to the first statement of Consumer::cancel: is_cancel = true.
ControllerElifLow ==
    /\ Running
    /\ pc[Controller] = "elif_low"
    /\ IF BelowLow(get_size("worker")) /\ MayScaleDown(Len(consumers))
       THEN /\ is_cancel' = [is_cancel EXCEPT ![ScaleDownTarget] = TRUE]
            /\ pc' = [pc EXCEPT ![Controller] = "pthread_cancel"]
       ELSE /\ pc' = [pc EXCEPT ![Controller] = "usleep"]
            /\ UNCHANGED is_cancel
    /\ tick_sizes' = {}
    /\ UNCHANGED <<config_vars, main_i, queue_vars, mutex, reader_i, written, held,
                   cancel_pending, n_created, consumers>>

\* The queue whose condition variable a Consumer at position p waits on.
WaitQueue(p) == IF p = "deq_wait" THEN "worker" ELSE "output"

\* The Consumer object c holds no thread handle when cancel() reads this->t:
\* its thread has run delete consumer, or its pthread_create failed.
HandleIndeterminate(c) == pc[c] \in {"exited", "nothread"}

\* pthread_cancel(c): no thread is affected when c has none or its thread has
\* ended; a thread blocked in pthread_cond_wait with cancellation enabled is
\* cancelled there (it re-takes the mutex and ends); otherwise the request
\* stays pending.
pthread_cancel(c) ==
    IF pc[c] \in {"exited", "cancelled", "nothread"}
    THEN /\ pc' = [pc EXCEPT ![Controller] = "usleep"]
         /\ UNCHANGED <<cancel_pending, mutex>>
    ELSE IF pc[c] \in {"enq_wait", "deq_wait"} /\ ~CancelDisabled(c)
    THEN /\ mutex[WaitQueue(pc[c])] = Free
         /\ pc' = [pc EXCEPT ![c] = "cancelled", ![Controller] = "usleep"]
         /\ mutex' = [mutex EXCEPT ![WaitQueue(pc[c])] = c]
         /\ UNCHANGED cancel_pending
    ELSE /\ cancel_pending' = [cancel_pending EXCEPT ![c] = TRUE]
         /\ pc' = [pc EXCEPT ![Controller] = "usleep"]
         /\ UNCHANGED mutex

\* Mutant of pop_back: the first element is removed.
pop_back_Front(seq) == Tail(seq)

\* consumers.pop_back()
pop_back(seq) == SubSeq(seq, 1, Len(seq) - 1)

\* ... return pthread_cancel(this->t); } consumers.pop_back();
\* When this->t is indeterminate the call has undefined behaviour: it finds
\* no thread and returns, or it faults and the process ends.
ControllerCancel ==
    /\ Running
    /\ pc[Controller] = "pthread_cancel"
    /\ \/ /\ pthread_cancel(ScaleDownTarget)
          /\ consumers' = pop_back(consumers)
          /\ UNCHANGED main_i
       \/ /\ HandleIndeterminate(ScaleDownTarget)
          /\ main_i' = Len(StartOrder) + 2
          /\ UNCHANGED <<pc, cancel_pending, mutex, consumers>>
    /\ UNCHANGED <<config_vars, queue_vars, tick_sizes, reader_i, written, held, is_cancel,
                   n_created>>

\* ---------------------------------------------------------------------- main
\* The position a thread has when its start() returns.
FirstPc(t) ==
    CASE t = Reader -> IF n = 0 THEN "done" ELSE "enq"
      [] t = Writer -> IF n = 0 THEN "done" ELSE "deq"
      [] t = Controller -> "usleep"
      [] OTHER -> "check"

\* reader->start(); writer->start(); controller->start(); p1->start(); ...
MainStart ==
    /\ main_i <= Len(StartOrder)
    /\ pc' = [pc EXCEPT ![StartOrder[main_i]] = FirstPc(StartOrder[main_i])]
    /\ main_i' = main_i + 1
    /\ UNCHANGED <<config_vars, queue_vars, tick_sizes, mutex, reader_i, written, held, is_cancel,
                   cancel_pending, n_created, consumers>>

\* reader->join(); writer->join(); then the deletes and return 0: the
\* process ends and takes every thread with it.
MainJoin ==
    /\ main_i = Len(StartOrder) + 1
    /\ pc[Reader] = "done"
    /\ pc[Writer] = "done"
    /\ main_i' = main_i + 1
    /\ UNCHANGED <<config_vars, pc, queue_vars, tick_sizes, mutex, reader_i, written, held, is_cancel,
                   cancel_pending, n_created, consumers>>

\* -------------------------------------------------------------- specification
\* The state main() has built before its first start(): three empty queues,
\* no thread running, a controller with an empty consumers vector.
Init ==
    /\ \/ /\ n \in 0..NItems
          /\ num_producers = NumProducers
          /\ TSQueueInit([input |-> READER_QUEUE_SIZE, worker |-> WORKER_QUEUE_SIZE,
                          output |-> WRITER_QUEUE_SIZE])
       \/ /\ n = WIDE_QUEUE_SIZE
          /\ num_producers = 1
          /\ TSQueueInit([input |-> READER_QUEUE_SIZE, worker |-> WIDE_QUEUE_SIZE,
                          output |-> WRITER_QUEUE_SIZE])
    /\ main_i = 1
    /\ pc = [t \in Threads |-> "new"]
    /\ reader_i = 0
    /\ written = <<>>
    /\ held = [t \in Threads |-> NoItem]
    /\ is_cancel = [c \in Consumers |-> FALSE]
    /\ cancel_pending = [t \in Threads |-> FALSE]
    /\ n_created = 0
    /\ consumers = <<>>
    /\ tick_sizes = {}

Next ==
    \/ MainStart
    \/ MainJoin
    \/ ReaderProcess
    \/ WriterProcess
    \/ \E p \in Producers : ProducerCheck(p)
    \/ \E p \in Producers : ProducerDequeue(p)
    \/ \E p \in Producers : ProducerEnqueue(p)
    \/ \E c \in Consumers : ConsumerWhile(c)
    \/ \E c \in Consumers : ConsumerIfSize(c)
    \/ \E c \in Consumers : ConsumerDequeue(c)
    \/ \E c \in Consumers : ConsumerEnqueue(c)
    \/ \E t \in Threads : SpuriousWakeup(t)
    \/ ControllerIfHigh
    \/ ControllerElifLow
    \/ ControllerCancel

Spec == Init /\ [][Next]_vars

\* The same program in an environment where pthread_create can fail.
FaultNext ==
    \/ Next
    \/ ControllerCreateFails

FaultSpec == Init /\ [][FaultNext]_vars

TypeOK ==
    /\ main_i \in 1..(Len(StartOrder) + 2)
    /\ num_producers \in 1..NumProducers
    /\ \A q \in Queues : head[q] \in 0..(buffer_size[q] - 1)
    /\ \A q \in Queues : tail[q] \in -1..(buffer_size[q] - 1)
    /\ \A q \in Queues : mutex[q] = Free
    /\ n_created \in 0..MaxConsumers


\* Every thread that can take a step eventually takes one (the scheduler
\* starves nobody); a spurious wake-up is never owed.
Fairness ==
    /\ WF_vars(MainStart) /\ WF_vars(MainJoin)
    /\ WF_vars(ReaderProcess) /\ WF_vars(WriterProcess)
    /\ \A p \in Producers :
           WF_vars(ProducerCheck(p) \/ ProducerDequeue(p) \/ ProducerEnqueue(p))
    /\ \A c \in Consumers :
           WF_vars(ConsumerWhile(c) \/ ConsumerIfSize(c) \/ ConsumerDequeue(c)
                   \/ ConsumerEnqueue(c))
    /\ WF_vars(ControllerIfHigh \/ ControllerElifLow \/ ControllerCancel)

FairSpec == Spec /\ Fairness

\* ----------------------------------------------------------------- properties
IsPrefix(s, t) == Len(s) <= Len(t) /\ \A i \in 1..Len(s) : s[i] = t[i]

\* How often key k occurs in a sequence of items.
Count(seq, k) == Cardinality({i \in DOMAIN seq : seq[i].key = k})

\* How many running threads of S own an item of key k.
HeldBy(S, k) ==
    Cardinality({t \in S : held[t].key = k /\ pc[t] \notin {"exited", "cancelled"}})

\* C1: on every TSQueue, and whichever threads call it, the values dequeue
\* has returned are, in the order returned, a prefix of the values in the
\* order their enqueue calls were serialized: none out of order, none twice,
\* none skipped.
C1_DequeuedIsPrefixOfEnqueued ==
    \A q \in Queues : IsPrefix(deq_hist[q], enq_hist[q])

\* Two Producers raced: the worker queue received key 2 before key 1, two
\* items have been dequeued from it and a third is still queued.
C1_Witness ==
    /\ Len(deq_hist["worker"]) >= 2
    /\ deq_hist["worker"][1].key = 2
    /\ size["worker"] >= 1

\* C2: the occupancy of every TSQueue, which is what get_size() returns,
\* stays within 0..buffer_size.
C2_SizeWithinCapacity ==
    \A q \in Queues : 0 <= get_size(q) /\ get_size(q) <= buffer_size[q]

\* A queue is full with an enqueuer blocked on it while another is empty
\* with a dequeuer blocked on it.
C2_Witness ==
    /\ \E q \in Queues : Full(q) /\ EnqWaiters(q) # {}
    /\ \E q \in Queues : Empty(q) /\ DeqWaiters(q) # {}

\* The number of places that hold the item of key k.
Places(k) ==
    Count(Contents("input"), k) + HeldBy(Producers, k)
    + Count(Contents("worker"), k) + HeldBy(Consumers, k)
    + Count(Contents("output"), k) + Count(written, k)

\* C4: every item the Reader has fed is in exactly one place (the input
\* queue, one Producer, the worker queue, one Consumer, the output queue,
\* or the Writer's output), and an item not yet fed is in none.
C4_EachItemInOnePlace ==
    \A k \in 1..n : Places(k) = IF k <= reader_i THEN 1 ELSE 0

\* A Producer and a Consumer each own an item after two scale-ups.
C4_Witness ==
    /\ n_created = 2
    /\ \E p \in Producers : held[p] # NoItem
    /\ \E c \in Consumers : held[c] # NoItem /\ pc[c] \in {"enq", "enq_wait"}


\* The pool has k Consumers in it.
PoolSize == Len(consumers)

\* C3 (as claimed): under fair scheduling the output queue eventually has
\* received exactly n items, one for each key 1..n.
AllDelivered ==
    /\ Len(enq_hist["output"]) = n
    /\ \A k \in 1..n : Count(enq_hist["output"], k) = 1

C3_EventuallyAllDelivered == <>AllDelivered

\* Every item that has entered the worker queue is still in it, or is owned
\* by one running Consumer, or has been put into the output queue, once.
WorkerItemsConserved ==
    \A i \in DOMAIN enq_hist["worker"] :
        LET k == enq_hist["worker"][i].key IN
        Count(Contents("worker"), k) + HeldBy(Consumers, k)
            + Count(enq_hist["output"], k) = 1

\* C5: wherever in its loop a Consumer is when cancel() is called on it, it
\* does not end while it owns an item, the item it owns is being forwarded
\* (it is nowhere else yet), and no item of the worker queue is lost or
\* appears twice.
C5_CancelKeepsItems ==
    /\ \A c \in Consumers :
           is_cancel[c] =>
               /\ pc[c] \in {"exited", "cancelled"} => held[c] = NoItem
               /\ held[c] # NoItem => pc[c] \in {"enq", "enq_wait"}
    /\ (\E c \in Consumers : is_cancel[c]) => WorkerItemsConserved

\* cancel() has completed on a Consumer that is blocked on the full output
\* queue with the item it dequeued.
C5_Witness ==
    \E c \in Consumers :
        /\ is_cancel[c] /\ cancel_pending[c]
        /\ pc[c] = "enq_wait" /\ held[c] # NoItem

\* C6 (as claimed): once ConsumerController::start() has been called the
\* pool holds at least one Consumer.
C6_PoolNonEmptyOnceStarted == pc[Controller] # "new" => PoolSize >= 1

\* C7: no step removes a Consumer from a pool of size 1 or less.
C7_NoRemovalAtOne == [][PoolSize <= 1 => Len(consumers') >= PoolSize]_vars

\* The pool has come down to one Consumer and the controller is at its
\* scale-down test with the occupancy below low_threshold.
C7_Witness ==
    /\ pc[Controller] = "elif_low"
    /\ n_created = 2 /\ PoolSize = 1
    /\ size["worker"] * 100
           < CONSUMER_CONTROLLER_LOW_THRESHOLD_PERCENTAGE * buffer_size["worker"]

\* C8: a tick runs from one usleep to the next.  Every step that changes the
\* pool changes its size by exactly one and ends the tick, so a tick holds
\* at most one scale event.
C8_OneScaleEventPerTick ==
    [][consumers' # consumers =>
          /\ Len(consumers') - PoolSize \in {-1, 1}
          /\ pc'[Controller] = "usleep"]_vars

\* Both kinds of scale event have happened.
C8_Witness == pc[Controller] = "usleep" /\ n_created = 2 /\ PoolSize = 1

\* C9: a tick whose first read of the occupancy is strictly above
\* high_threshold appends exactly one new, started Consumer to the pool and
\* is over; a tick at or below it adds none.
C9_ScaleUpIffAboveHigh ==
    [][(pc[Controller] = "usleep"
          /\ (pc'[Controller] # "usleep" \/ consumers' # consumers)) =>
          IF size["worker"] * 100
                 > CONSUMER_CONTROLLER_HIGH_THRESHOLD_PERCENTAGE * buffer_size["worker"]
          THEN /\ pc'[Controller] = "usleep"
               /\ \E c \in Consumers :
                      /\ pc[c] = "new" /\ pc'[c] = "while" /\ ~is_cancel'[c]
                      /\ consumers' = Append(consumers, c)
          ELSE consumers' = consumers /\ n_created' = n_created]_vars

\* The pool grew on two ticks and the next tick starts at exactly 80%.
C9_Witness ==
    /\ pc[Controller] = "usleep"
    /\ PoolSize = 2
    /\ size["worker"] * 100
           = CONSUMER_CONTROLLER_HIGH_THRESHOLD_PERCENTAGE * buffer_size["worker"]

\* C10: a tick that reaches the scale-down test with the occupancy strictly
\* below low_threshold and more than one Consumer in the pool cancels the
\* last Consumer of the pool and removes exactly that one, the others staying
\* in place; any other tick that reaches the test leaves the pool alone.
C10_ScaleDownRemovesNewest ==
    [][/\ (pc[Controller] = "elif_low" /\ pc'[Controller] # "elif_low") =>
              IF /\ size["worker"] * 100
                       < CONSUMER_CONTROLLER_LOW_THRESHOLD_PERCENTAGE * buffer_size["worker"]
                 /\ PoolSize > 1
              THEN /\ pc'[Controller] = "pthread_cancel"
                   /\ is_cancel' = [is_cancel EXCEPT ![consumers[PoolSize]] = TRUE]
                   /\ consumers' = consumers
              ELSE /\ pc'[Controller] = "usleep"
                   /\ is_cancel' = is_cancel /\ consumers' = consumers
       /\ (pc[Controller] = "pthread_cancel" /\ pc'[Controller] # "pthread_cancel") =>
              /\ is_cancel[consumers[PoolSize]]
              /\ consumers' = SubSeq(consumers, 1, PoolSize - 1)
              /\ pc'[Controller] = "usleep"
       /\ Len(consumers') < PoolSize => pc[Controller] = "pthread_cancel"]_vars

\* The newest of two Consumers has been cancelled and removed; the older one
\* is still the pool's first.
C10_Witness ==
    /\ pc[Controller] = "usleep"
    /\ consumers = << <<"C", 1>> >>
    /\ is_cancel[<<"C", 2>>] /\ ~is_cancel[<<"C", 1>>]


\* The threads about to take q's mutex at the head of dequeue's while loop.
AtDeq(q) ==
    {t \in Threads : /\ pc[t] = "deq"
                     /\ \/ q = "input" /\ t \in Producers
                        \/ q = "worker" /\ t \in Consumers
                        \/ q = "output" /\ t = Writer}

\* The threads about to take q's mutex at the head of enqueue's while loop.
AtEnq(q) ==
    {t \in Threads : /\ pc[t] = "enq"
                     /\ \/ q = "input" /\ t = Reader
                        \/ q = "worker" /\ t \in Producers
                        \/ q = "output" /\ t \in Consumers}

\* While a thread is blocked in dequeue there are at least as many threads
\* about to take as there are items, and likewise for enqueue and free slots:
\* every completed operation has woken a waiter if there was one.
NoLostWakeup ==
    \A q \in Queues :
        /\ DeqWaiters(q) # {} => Cardinality(AtDeq(q)) >= size[q]
        /\ EnqWaiters(q) # {} => Cardinality(AtEnq(q)) >= buffer_size[q] - size[q]

\* An item is appended only to a queue that is not full and removed only
\* from one that is not empty.
BlocksAtLimits ==
    \A q \in Queues :
        /\ enq_hist'[q] # enq_hist[q] => size[q] < buffer_size[q]
        /\ deq_hist'[q] # deq_hist[q] => size[q] > 0

\* A thread is blocked in dequeue on a non-empty queue, or in enqueue on a
\* queue that is not full.
BlockedWithWork ==
    /\ Running
    /\ \E q \in Queues :
           \/ DeqWaiters(q) # {} /\ size[q] > 0
           \/ EnqWaiters(q) # {} /\ size[q] < buffer_size[q]

\* C11: enqueue appends only below capacity and dequeue removes only above
\* zero; no wake-up is lost (a blocked thread always has enough woken or
\* arriving threads beside it for the items, or the slots, there are); and
\* under fair scheduling no queue of the running process stays non-empty with
\* a thread blocked in dequeue, nor non-full with a thread blocked in enqueue.
C11_NoLostWakeup ==
    /\ [][BlocksAtLimits]_vars
    /\ []NoLostWakeup
    /\ []<>~BlockedWithWork

\* Two threads were blocked in enqueue on the same full queue, a dequeue has
\* made room and woken one of them, the other is still blocked.
C11_Witness ==
    \E q \in Queues :
        /\ EnqWaiters(q) # {}
        /\ AtEnq(q) # {}
        /\ size[q] < buffer_size[q]


\* C12 (as claimed): a Worker that cancel() was called on while it was
\* blocked in dequeue, or that blocks there afterwards, eventually leaves its
\* loop and exits.
C12_CancelledWorkerExits ==
    \A c \in Consumers :
        (is_cancel[c] /\ pc[c] = "deq_wait") ~> (pc[c] = "exited")


\* A step taken by the controller thread.
ControllerStep ==
    \/ pc'[Controller] # pc[Controller]
    \/ consumers' # consumers
    \/ is_cancel' # is_cancel
    \/ n_created' # n_created

\* The pool and every Consumer are as they were.
PoolFrame ==
    /\ consumers' = consumers
    /\ is_cancel' = is_cancel
    /\ cancel_pending' = cancel_pending
    /\ n_created' = n_created
    /\ \A c \in Consumers : pc'[c] = pc[c]

\* C13: a tick whose scale-up test reads an occupancy at or below
\* high_threshold starts no Worker, and when its scale-down test then reads
\* an occupancy at or above low_threshold, or finds the pool at size 1 or
\* less, it cancels none: the pool, its order, every cancellation flag and
\* every Worker are the same after the tick, and the tick is over.
C13_NoActionTickLeavesPool ==
    [][/\ (/\ pc[Controller] = "usleep" /\ ControllerStep
           /\ size["worker"] * 100
                  <= CONSUMER_CONTROLLER_HIGH_THRESHOLD_PERCENTAGE * buffer_size["worker"])
          => PoolFrame /\ pc'[Controller] = "elif_low"
       /\ (/\ pc[Controller] = "elif_low" /\ ControllerStep
           /\ \/ size["worker"] * 100
                     >= CONSUMER_CONTROLLER_LOW_THRESHOLD_PERCENTAGE * buffer_size["worker"]
              \/ PoolSize <= 1)
          => PoolFrame /\ pc'[Controller] = "usleep"]_vars

\* The controller is at its scale-down test with two Workers in the pool and
\* the occupancy at exactly low_threshold.
C13_Witness ==
    /\ pc[Controller] = "elif_low"
    /\ PoolSize = 2
    /\ size["worker"] * 100
           = CONSUMER_CONTROLLER_LOW_THRESHOLD_PERCENTAGE * buffer_size["worker"]


\* C14: every item put into the worker queue has the key and opcode of a fed
\* item and value stageA(opcode, v); every item put into the output queue
\* has the key and opcode of a fed item and value
\* stageB(opcode, stageA(opcode, v)): each transform applied exactly once.
C14_TransformsAppliedOnce ==
    /\ \A i \in DOMAIN enq_hist["worker"] :
           LET it == enq_hist["worker"][i]
               fed == InputItem(it.key)
           IN  /\ it.key \in 1..reader_i
               /\ it.opcode = fed.opcode
               /\ it.val = <<1, fed.opcode>> \o fed.val
    /\ \A i \in DOMAIN enq_hist["output"] :
           LET it == enq_hist["output"][i]
               fed == InputItem(it.key)
           IN  /\ it.key \in 1..reader_i
               /\ it.opcode = fed.opcode
               /\ it.val = <<2, fed.opcode, 1, fed.opcode>> \o fed.val

\* Items of both opcodes have gone through both stages.
C14_Witness ==
    /\ \E i \in DOMAIN enq_hist["output"] : enq_hist["output"][i].opcode = 0
    /\ \E i \in DOMAIN enq_hist["output"] : enq_hist["output"][i].opcode = 1


\* C15 (as claimed): a Worker whose thread could not be created is not a
\* member of the pool.
C15_FailedWorkerNotInPool ==
    \A i \in DOMAIN consumers : pc[consumers[i]] # "nothread"


\* C16 (as claimed): no Producer and no Consumer is ever blocked inside
\* dequeue.
C16_NeverBlocksInDequeue ==
    \A t \in Producers \cup Consumers : pc[t] # "deq_wait"

\* C17 (as claimed): when Consumer::cancel() reads this->t for pthread_cancel,
\* the Consumer has not yet deleted itself.
C17_NoAccessAfterSelfDelete ==
    pc[Controller] = "pthread_cancel" => pc[ScaleDownTarget] # "exited"

\* The Consumers that have been started and that cancel() was not called on.
StartedUncancelled ==
    {c \in Consumers : pc[c] \notin {"new", "nothread"} /\ ~is_cancel[c]}

Prescribed(v, pool_size) ==
    IF v * 100 > CONSUMER_CONTROLLER_HIGH_THRESHOLD_PERCENTAGE * buffer_size["worker"]
    THEN "up"
    ELSE IF /\ v * 100
                  < CONSUMER_CONTROLLER_LOW_THRESHOLD_PERCENTAGE * buffer_size["worker"]
            /\ pool_size > 1
    THEN "down"
    ELSE "none"

\* C19: the two reads of a tick may see different sizes, yet what the tick
\* does is what the rule prescribes for one size the worker queue had during
\* the tick: a scale-up for the size of the first read; a scale-down, or no
\* action, for a size the queue had between the first read and the second.
\* A scale-down is taken only on a read below low_threshold, a scale-up only
\* on a read above high_threshold.
C19_TickActsOnOneHeldSize ==
    [][/\ (pc[Controller] = "usleep" /\ consumers' # consumers)
              => Prescribed(size["worker"], PoolSize) = "up"
       /\ (pc[Controller] = "elif_low" /\ ControllerStep)
              => /\ size["worker"] \in tick_sizes
                 /\ \E v \in tick_sizes :
                        Prescribed(v, PoolSize)
                            = IF pc'[Controller] = "pthread_cancel"
                              THEN "down" ELSE "none"
                 /\ pc'[Controller] = "pthread_cancel"
                        => Prescribed(size["worker"], PoolSize) = "down"]_vars

\* The controller is between its two reads with two Workers in the pool; the
\* first read saw an empty worker queue and an item has arrived since.
C19_Witness ==
    /\ pc[Controller] = "elif_low"
    /\ PoolSize = 2
    /\ 0 \in tick_sizes
    /\ size["worker"] = 1


\* C20: in every state (each critical section of a TSQueue is one step), for
\* every queue: 0 <= head < buffer_size; -1 <= tail < buffer_size, with
\* tail = -1 exactly before the first enqueue; size is congruent to
\* tail - head + 1 modulo buffer_size; and the size slots from head on hold
\* the items enqueued and not yet dequeued, oldest first.
C20_RingIndicesConsistent ==
    \A q \in Queues :
        /\ head[q] \in 0..(buffer_size[q] - 1)
        /\ tail[q] \in -1..(buffer_size[q] - 1)
        /\ tail[q] = -1 <=> enq_hist[q] = <<>>
        /\ (size[q] - (tail[q] - head[q] + 1)) % buffer_size[q] = 0
        /\ size[q] = Len(enq_hist[q]) - Len(deq_hist[q])
        /\ \A i \in 1..size[q] :
               buffer[q][(head[q] + i - 1) % buffer_size[q]]
                   = enq_hist[q][Len(deq_hist[q]) + i]

\* A queue whose live items wrap around the end of the buffer.
C20_Witness ==
    \E q \in Queues :
        /\ buffer_size[q] >= 2
        /\ size[q] >= 2
        /\ tail[q] < head[q]

====
